---- MODULE Spec2Model ----
(***************************************************************************)
(* The build script of mlx-sys (src/mlx-sys/build.rs) as a state machine.  *)
(*                                                                         *)
(* One invocation of the script is one run of main(): resolve the          *)
(* deployment target, stage src/mlx-c into $OUT_DIR/mlx-c-staged, inject   *)
(* the patch, configure and run the native build, emit the link            *)
(* directives, probe for the clang runtime, cache mlx.metallib, generate   *)
(* the bindings.  The file system and the clock outlive an invocation;     *)
(* everything else is the state of one process.  The script is modelled as *)
(* built for macOS (the cfg(target_os = "macos") blocks are compiled in).  *)
(***************************************************************************)
EXTENDS Naturals, Integers, Sequences, FiniteSets, TLC

VARIABLES
    fs,          \* the file system: path (sequence of names) -> node
    cache,       \* $HOME/.cache/pmetal/lib/mlx.metallib: NoFile or [data, mtime]
    clock,       \* wall-clock time, advanced between invocations
    runs,        \* number of invocations started so far
    pc,          \* position of the running invocation in main()
    envTarget,   \* MACOSX_DEPLOYMENT_TARGET in the process environment
    features,    \* cfg(feature = "metal"), cfg(feature = "accelerate")
    stack,       \* active calls of copy_dir_recursive: frames [src, dst, todo]
    config,      \* the cmake::Config defines handed to the native build
    artifact,    \* <dst>/build/lib/mlx.metallib: NoFile or [data, mtime]
    output,      \* the lines printed to cargo, in order
    probe,       \* find_clang_rt_path(): its progress and result
    clang_dir,   \* find_clang_rt_path(): the entries read_dir enumerates
    race,        \* invocations running at the same time, each in its caching block
    locals,      \* the caching block: the file found at dest, dst_t, src_t, should_copy, the branch taken
    staged0,     \* paths below the staged root when prepare_mlx_c_source was entered
    stagings     \* the staged trees the Source Stager has produced, one per completed staging

vars == <<fs, cache, clock, runs, pc, envTarget, features, stack, config,
          artifact, output, probe, locals, staged0, stagings, clang_dir, race>>

----------------------------------------------------------------------------
(* Bounds of the model.                                                    *)

\* Number of invocations of the build script in one behaviour.
MaxRuns == 2
\* Longest path (in components) the file system accepts: PATH_MAX.
MaxDepth == 4
\* Symbolic links followed in one path resolution before ELOOP.
MaxHops == 3
\* Longest Build Descriptor, in tokens, of the patch specification.
MaxLen == 4
\* Number of invocations in one behaviour of the specification of concurrent
\* invocations.
MaxRaceRuns == 3

----------------------------------------------------------------------------
(* Values.                                                                 *)

\* An absent file; every file that exists has data.
NoFile == [data |-> <<>>, mtime |-> 0]
NoPath == <<"!">>
Unset == "unset"
\* An Option of a modification time is <<>> (None) or <<t>> (Some(t)).
NoTime == <<>>
Bundles == {<<"kernels-a">>, <<"kernels-b">>}
Partial == <<"truncated">>
\* a file written by two copies at once: parts of one bundle, parts of another
Torn == <<"mixed">>

Dir == [kind |-> "dir", data |-> <<>>, abs |-> FALSE, to |-> <<>>]
File(d) == [kind |-> "file", data |-> d, abs |-> FALSE, to |-> <<>>]
Link(a, t) == [kind |-> "link", data |-> <<>>, abs |-> a, to |-> t]

\* Tokens of a Build Descriptor.  TAG is the text "GIT_TAG v0.30.6", CLOSE is
\* ")", TEXT is any other text, and PATCH is the inserted text
\* "\n    PATCH_COMMAND git apply ${CMAKE_CURRENT_SOURCE_DIR}/patches/metallib-search-path.patch || true".
TAG == "GIT_TAG v0.30.6"
CLOSE == ")"
TEXT == "..."
PATCH == "\n    PATCH_COMMAND git apply || true"
Tokens == {TAG, CLOSE, TEXT}

----------------------------------------------------------------------------
(* Paths.                                                                  *)

SrcRoot == <<"src">>
StagedRoot == <<"staged">>
ExtRoot == <<"ext">>
PatchesDir == StagedRoot \o <<"patches">>
PatchFile == PatchesDir \o <<"metallib-search-path.patch">>
CmakePathSrc == SrcRoot \o <<"CMakeLists.txt">>
CmakePath == StagedRoot \o <<"CMakeLists.txt">>

IsPrefix(p, q) == Len(p) <= Len(q) /\ SubSeq(q, 1, Len(p)) = p
Parent(p) == IF p = <<>> THEN <<>> ELSE SubSeq(p, 1, Len(p) - 1)
Rel(root, p) == SubSeq(p, Len(root) + 1, Len(p))
Under(f, root) == {p \in DOMAIN f : IsPrefix(root, p)}
Subtree(f, root) == [r \in {Rel(root, p) : p \in Under(f, root)} |-> f[root \o r]]
Children(f, d) == {p[Len(p)] : p \in {q \in DOMAIN f : Len(q) = Len(d) + 1 /\ IsPrefix(d, q)}}

\* Path resolution as the operating system does it: `at` is the directory
\* reached so far (a path without links), `rest` the components still to
\* resolve; a link restarts at the root (absolute) or at `at` (relative).
RECURSIVE Walk(_, _, _, _)
Walk(f, at, rest, hops) ==
    IF rest = <<>> THEN at
    ELSE LET c == Head(rest)
             r == Tail(rest)
             p == Append(at, c)
         IN  IF c = "." THEN Walk(f, at, r, hops)
             ELSE IF c = ".." THEN Walk(f, Parent(at), r, hops)
             ELSE IF p \notin DOMAIN f THEN NoPath
             ELSE IF f[p].kind = "link"
                  THEN IF hops = 0 THEN NoPath
                       ELSE Walk(f, IF f[p].abs THEN <<>> ELSE at, f[p].to \o r, hops - 1)
             ELSE IF f[p].kind = "file"
                  THEN IF r = <<>> THEN p ELSE NoPath
             ELSE Walk(f, p, r, hops)

Resolve(f, path) == Walk(f, <<>>, path, MaxHops)
is_dir(f, path) == LET t == Resolve(f, path) IN t # NoPath /\ t # <<>> /\ f[t].kind = "dir"
is_file(f, path) == LET t == Resolve(f, path) IN t # NoPath /\ t # <<>> /\ f[t].kind = "file"

----------------------------------------------------------------------------
(* The vendored source trees the model is run on.                          *)

StdCmake == <<TEXT, TAG, CLOSE, TEXT>>

Base(cm) ==
    (SrcRoot :> Dir) @@ (ExtRoot :> Dir) @@ (ExtRoot \o <<"h">> :> File(<<"ext-h">>))
    @@ (CmakePathSrc :> File(cm))

\* plain files and directories
TreePlain(cm) ==
    Base(cm) @@ (<<"src", "mlx">> :> Dir) @@ (<<"src", "mlx", "c.h">> :> File(<<"c-h">>))

\* `current -> v2`, a relative link to a sibling directory holding x.txt, and
\* inside v2 a relative link to a sibling file and one that climbs with ".."
TreeRel(cm) ==
    Base(cm) @@ (<<"src", "v2">> :> Dir) @@ (<<"src", "v2", "x.txt">> :> File(<<"v2-x">>))
    @@ (<<"src", "x.txt">> :> File(<<"top-x">>))
    @@ (<<"src", "v2", "alias">> :> Link(FALSE, <<"x.txt">>))
    @@ (<<"src", "v2", "up">> :> Link(FALSE, <<"..", "CMakeLists.txt">>))
    @@ (<<"src", "current">> :> Link(FALSE, <<"v2">>))

\* absolute links to a file and to a directory, a link to a link, and in v2
\* a relative link to a file whose name the source root has too
TreeAbs(cm) ==
    Base(cm) @@ (<<"src", "v2">> :> Dir) @@ (<<"src", "v2", "x.txt">> :> File(<<"v2-x">>))
    @@ (<<"src", "x.txt">> :> File(<<"top-x">>))
    @@ (<<"src", "v2", "alias">> :> Link(FALSE, <<"x.txt">>))
    @@ (<<"src", "hdr">> :> Link(TRUE, <<"ext", "h">>))
    @@ (<<"src", "adir">> :> Link(TRUE, <<"src", "v2">>))
    @@ (<<"src", "chain">> :> Link(FALSE, <<"hdr">>))

\* a link whose target does not exist
TreeBroken(cm) ==
    Base(cm) @@ (<<"src", "gone">> :> Link(FALSE, <<"nowhere">>))

\* a link to the directory that holds it
TreeLoop(cm) ==
    Base(cm) @@ (<<"src", "self">> :> Link(FALSE, <<".">>))

\* only the Build Descriptor
TreeFlat(cm) == Base(cm)

\* a tree without a Build Descriptor
TreeNoCmake ==
    (SrcRoot :> Dir) @@ (ExtRoot :> Dir) @@ (<<"src", "mlx">> :> Dir)

Trees ==
    {TreePlain(StdCmake), TreeRel(StdCmake), TreeAbs(StdCmake),
     TreeBroken(StdCmake), TreeLoop(StdCmake), TreeNoCmake}

----------------------------------------------------------------------------
(* The state of a process at its start, and the inputs of an invocation.   *)

EnvTargets == {Unset, "13.0"}
Features == [metal : BOOLEAN, accelerate : BOOLEAN]
NoConfig == [target |-> Unset, metal |-> "unset", accelerate |-> "unset"]
NoLocals == [before |-> NoFile, dst_t |-> NoTime, src_t |-> NoTime,
             should_copy |-> FALSE, result |-> "none"]
NoProbe == "unknown"
\* the processes of the specification of concurrent invocations
Procs == {"a", "b"}
NoProc == [pc |-> "idle", artifact |-> NoFile, before |-> NoFile, mix |-> FALSE,
           result |-> "none"]
Idle == [p \in Procs |-> NoProc]

Init ==
    /\ fs \in Trees
    /\ cache = NoFile
    /\ clock = 1
    /\ runs = 1
    /\ pc = "start"
    /\ envTarget \in EnvTargets
    /\ features \in Features
    /\ stack = <<>>
    /\ config = NoConfig
    /\ artifact = NoFile
    /\ output = <<>>
    /\ probe = NoProbe
    /\ locals = NoLocals
    /\ staged0 = {}
    /\ stagings = <<>>
    /\ clang_dir = <<>>
    /\ race = Idle

----------------------------------------------------------------------------
(* Toolchain Resolver: the deployment target.                              *)

ClampedTarget(env) == IF env \in {Unset, "13.0"} THEN "14.0" ELSE env
\* env::var("MACOSX_DEPLOYMENT_TARGET").unwrap_or_else(|_| "14.0".to_string())
resolve_deployment_target(env) == IF env = Unset THEN "14.0" ELSE env

set_var_skipped(old, value) == old
\* env::set_var("MACOSX_DEPLOYMENT_TARGET", &target)
set_var(old, value) == value

\* build_and_link_mlx_c, the first cfg(target_os = "macos") block
SetDeploymentTarget ==
    /\ pc = "start"
    /\ envTarget' = set_var(envTarget, resolve_deployment_target(envTarget))
    /\ pc' = "stage"
    /\ UNCHANGED <<fs, cache, clock, runs, features, stack, config, artifact,
                   output, probe, locals, staged0, stagings, clang_dir, race>>

----------------------------------------------------------------------------
(* Source Stager.                                                          *)

KeepTree(f, root) == f
\* std::fs::remove_dir_all(&staged)
remove_dir_all(f, root) ==
    [p \in DOMAIN f \ Under(f, root) |-> f[p]]
create_dir_all(f, d) == IF d \in DOMAIN f THEN f ELSE f @@ (d :> Dir)
CanCreateDir(f, d) == Len(d) <= MaxDepth /\ (d \in DOMAIN f => f[d].kind = "dir")

\* std::fs::copy(from, to): `from` is followed to a regular file
CanCopy(f, from, to) == is_file(f, from) /\ Len(to) <= MaxDepth
copy(f, from, to) ==
    LET n == File(f[Resolve(f, from)].data)
    IN  IF to \in DOMAIN f THEN [f EXCEPT ![to] = n] ELSE f @@ (to :> n)

\* read_dir(src): the names in the directory `src` resolves to
read_dir(f, src) == Children(f, Resolve(f, src))
Frame(f, src, dst) == [src |-> src, dst |-> dst, todo |-> read_dir(f, src)]

\* the target of the link at entry.path(), as the code resolves it
ResolvedAgainstRoot(entryPath, node) ==
    IF node.abs THEN node.to ELSE SrcRoot \o node.to
Resolved(entryPath, node) ==
    IF node.abs THEN node.to ELSE Parent(entryPath) \o node.to

Proceed ==
    /\ pc' = "configure"
    /\ stack' = <<>>
\* a `?` that returns Err to an .expect(...), or an .expect(...) on an Err:
\* the process panics
Abort ==
    /\ pc' = "aborted"
    /\ stack' = <<>>

\* copy_dir_recursive(src, dst) up to its loop: create_dir_all, read_dir
EnterDir(src, dst, rest) ==
    IF ~CanCreateDir(fs, dst)
    THEN Abort /\ fs' = fs
    ELSE IF ~is_dir(fs, src)
    THEN Abort /\ fs' = create_dir_all(fs, dst)
    ELSE /\ fs' = create_dir_all(fs, dst)
         /\ stack' = Append(rest, Frame(fs, src, dst))
         /\ pc' = "copy"

\* prepare_mlx_c_source: remove the staged tree, call copy_dir_recursive
StageBegin ==
    /\ pc = "stage"
    /\ staged0' = Under(fs, StagedRoot)
    /\ LET clean == remove_dir_all(fs, StagedRoot)
       IN  IF ~is_dir(clean, SrcRoot)
           THEN Abort /\ fs' = create_dir_all(clean, StagedRoot)
           ELSE /\ fs' = create_dir_all(clean, StagedRoot)
                /\ stack' = <<Frame(clean, SrcRoot, StagedRoot)>>
                /\ pc' = "copy"
    /\ UNCHANGED <<cache, clock, runs, envTarget, features, config, artifact,
                   output, probe, locals, stagings, clang_dir, race>>

Unconsumed(todo, n) == todo
\* `for entry in std::fs::read_dir(src)?`: the iterator yields each entry once
Consumed(todo, n) == todo \ {n}

\* one iteration of the loop of copy_dir_recursive
CopyEntry ==
    /\ pc = "copy"
    /\ stack # <<>>
    /\ LET top == stack[Len(stack)]
       IN  \E n \in top.todo :
             LET node == fs[Append(Resolve(fs, top.src), n)]
                 entryPath == Append(top.src, n)
                 dest_path == Append(top.dst, n)
                 rest == [stack EXCEPT ![Len(stack)].todo = Consumed(top.todo, n)]
                 from == IF node.kind = "link" THEN Resolved(entryPath, node) ELSE entryPath
             IN  IF node.kind = "dir" \/ (node.kind = "link" /\ is_dir(fs, from))
                 THEN EnterDir(from, dest_path, rest)
                 ELSE IF CanCopy(fs, from, dest_path)
                      THEN /\ fs' = copy(fs, from, dest_path)
                           /\ stack' = rest
                           /\ pc' = "copy"
                      ELSE Abort /\ fs' = fs
    /\ UNCHANGED <<cache, clock, runs, envTarget, features, config, artifact,
                   output, probe, locals, staged0, stagings, clang_dir, race>>

\* the loop of a copy_dir_recursive is over: Ok(()), back in the caller
CopyReturn ==
    /\ pc = "copy"
    /\ stack # <<>>
    /\ stack[Len(stack)].todo = {}
    /\ stack' = SubSeq(stack, 1, Len(stack) - 1)
    /\ pc' = IF Len(stack) = 1 THEN "patch" ELSE "copy"
    /\ stagings' = IF Len(stack) = 1 THEN Append(stagings, Subtree(fs, StagedRoot)) ELSE stagings
    /\ UNCHANGED <<fs, cache, clock, runs, envTarget, features, config, artifact,
                   output, probe, locals, staged0, clang_dir, race>>

----------------------------------------------------------------------------
(* Patch Injector.                                                         *)

\* str::replace(from, to) on a token sequence: every non-overlapping match of
\* `from`, scanned from the left, is replaced by `to`
RECURSIVE replace(_, _, _)
replace(s, from, to) ==
    IF Len(s) < Len(from) THEN s
    ELSE IF SubSeq(s, 1, Len(from)) = from
         THEN to \o replace(SubSeq(s, Len(from) + 1, Len(s)), from, to)
         ELSE <<Head(s)>> \o replace(Tail(s), from, to)

RECURSIVE replacen1(_, _, _)
replacen1(s, from, to) ==
    IF Len(s) < Len(from) THEN s
    ELSE IF SubSeq(s, 1, Len(from)) = from
         THEN to \o SubSeq(s, Len(from) + 1, Len(s))
         ELSE <<Head(s)>> \o replacen1(Tail(s), from, to)

Needle == <<TAG, CLOSE>>
Replacement == <<TAG, PATCH, CLOSE>>
PatchedFirstOnly(cmake_content) == replacen1(cmake_content, Needle, Replacement)
Patched(cmake_content) == replace(cmake_content, Needle, Replacement)

RerunIfChanged == "cargo:rerun-if-changed=patches/metallib-search-path.patch"

\* prepare_mlx_c_source: create the patches directory and copy the patch
\* asset into it; the asset is a file of the package, present or not
PatchCopyAsset ==
    /\ pc = "patch"
    /\ \E assetPresent \in BOOLEAN :
         IF ~CanCreateDir(fs, PatchesDir)
         THEN Abort /\ fs' = fs
         ELSE IF ~assetPresent
         THEN Abort /\ fs' = create_dir_all(fs, PatchesDir)
         ELSE /\ fs' = LET g == create_dir_all(fs, PatchesDir)
                       IN  IF PatchFile \in DOMAIN g
                           THEN [g EXCEPT ![PatchFile] = File(<<"patch">>)]
                           ELSE g @@ (PatchFile :> File(<<"patch">>))
              /\ pc' = "rewrite"
              /\ stack' = stack
    /\ UNCHANGED <<cache, clock, runs, envTarget, features, config, artifact,
                   output, probe, locals, staged0, stagings, clang_dir, race>>

\* the Build Descriptor the Patch Injector rewrites
cmake_path_in_src == CmakePathSrc
cmake_path == CmakePath

\* prepare_mlx_c_source: read the Build Descriptor, replace, write it back,
\* print the rerun-if-changed line
PatchRewrite ==
    /\ pc = "rewrite"
    /\ IF ~is_file(fs, cmake_path)
       THEN Abort /\ fs' = fs /\ output' = output
       ELSE /\ fs' = [fs EXCEPT ![Resolve(fs, cmake_path)] =
                         File(Patched(fs[Resolve(fs, cmake_path)].data))]
            /\ output' = Append(output, RerunIfChanged)
            /\ pc' = "configure"
            /\ stack' = stack
    /\ UNCHANGED <<cache, clock, runs, envTarget, features, config, artifact,
                   probe, locals, staged0, stagings, clang_dir, race>>

----------------------------------------------------------------------------
(* Native Build Driver.                                                    *)

OnOff(b) == IF b THEN "ON" ELSE "OFF"

\* build_and_link_mlx_c: Config::new(&mlx_c_src) and its defines
Configure ==
    /\ pc = "configure"
    /\ config' = [target |-> resolve_deployment_target(envTarget),
                  metal |-> OnOff(features.metal),
                  accelerate |-> OnOff(features.accelerate)]
    /\ pc' = "build"
    /\ UNCHANGED <<fs, cache, clock, runs, envTarget, features, stack, artifact,
                   output, probe, locals, staged0, stagings, clang_dir, race>>

\* what the native build leaves at <dst>/build/lib/mlx.metallib: the kernel
\* bundle is built only with MLX_BUILD_METAL=ON, and an up-to-date one is
\* not rebuilt, so its modification time is any time up to now
Artifacts(cfg) ==
    {NoFile} \cup
    (IF cfg.metal = "ON" THEN [data : Bundles, mtime : 0..clock] ELSE {})

BuildRetried == pc' = "configure"
\* the cmake crate panics when the native build fails
BuildFailed == pc' = "aborted"

\* config.build()
NativeBuild ==
    /\ pc = "build"
    /\ \/ /\ BuildFailed
          /\ artifact' = artifact
       \/ /\ artifact' \in Artifacts(config)
          /\ pc' = "link"
    /\ UNCHANGED <<fs, cache, clock, runs, envTarget, features, stack, config,
                   output, probe, locals, staged0, stagings, clang_dir, race>>

----------------------------------------------------------------------------
(* Link Wiring.                                                            *)

LinkSearch == "cargo:rustc-link-search=native=<dst>/build/lib"
LinkMlx == "cargo:rustc-link-lib=static=mlx"
LinkMlxc == "cargo:rustc-link-lib=static=mlxc"
LinkCxx == "cargo:rustc-link-lib=c++"
LinkObjc == "cargo:rustc-link-lib=dylib=objc"
LinkFoundation == "cargo:rustc-link-lib=framework=Foundation"
LinkMetal == "cargo:rustc-link-lib=framework=Metal"
LinkAccelerate == "cargo:rustc-link-lib=framework=Accelerate"
LinkClangRtSearch(v) ==
    IF v = "16" THEN "cargo:rustc-link-search=<toolchain>/16/lib/darwin"
    ELSE "cargo:rustc-link-search=<toolchain>/17/lib/darwin"
LinkClangRt == "cargo:rustc-link-lib=static=clang_rt.osx"

\* the lines build_and_link_mlx_c prints between config.build() and the probe
LinkLinesAccelerateFirst(ft) ==
    <<LinkSearch, LinkMlx, LinkMlxc, LinkCxx, LinkObjc, LinkFoundation>>
    \o (IF ft.accelerate THEN <<LinkAccelerate>> ELSE <<>>)
    \o (IF ft.metal THEN <<LinkMetal>> ELSE <<>>)
LinkLinesMetalAlways(ft) ==
    <<LinkSearch, LinkMlx, LinkMlxc, LinkCxx, LinkObjc, LinkFoundation, LinkMetal>>
    \o (IF ft.accelerate THEN <<LinkAccelerate>> ELSE <<>>)
LinkLines(ft) ==
    <<LinkSearch, LinkMlx, LinkMlxc, LinkCxx, LinkObjc, LinkFoundation>>
    \o (IF ft.metal THEN <<LinkMetal>> ELSE <<>>)
    \o (IF ft.accelerate THEN <<LinkAccelerate>> ELSE <<>>)

LinkWiring ==
    /\ pc = "link"
    /\ output' = output \o LinkLines(features)
    /\ pc' = "xcrun"
    /\ UNCHANGED <<fs, cache, clock, runs, envTarget, features, stack, config,
                   artifact, probe, locals, staged0, stagings, clang_dir, race>>

----------------------------------------------------------------------------
(* Toolchain Resolver: the runtime-symbol fallback.                        *)

\* the version directories under <developer dir>/Toolchains/.../usr/lib/clang
Versions == {"16", "17"}
\* read_dir of that directory: the entries in the order enumerated, each
\* with whether lib/darwin/libclang_rt.osx.a exists below it
Listings ==
    {<<>>} \cup {<<[name |-> v, has |-> h]>> : v \in Versions, h \in BOOLEAN}
    \cup {l \in {<<[name |-> v, has |-> h], [name |-> w, has |-> k]>> :
                      v \in Versions, w \in Versions, h \in BOOLEAN, k \in BOOLEAN} :
             l[1].name # l[2].name}

NoVersion == "none"
RECURSIVE LastWith(_)
LastWith(listing) ==
    IF listing = <<>> THEN NoVersion
    ELSE IF LastWith(Tail(listing)) # NoVersion THEN LastWith(Tail(listing))
    ELSE IF Head(listing).has THEN Head(listing).name
    ELSE NoVersion
\* the loop of find_clang_rt_path: the first entry, in the order enumerated,
\* below which the archive exists
RECURSIVE FirstWith(_)
FirstWith(listing) ==
    IF listing = <<>> THEN NoVersion
    ELSE IF Head(listing).has THEN Head(listing).name
    ELSE FirstWith(Tail(listing))

\* find_clang_rt_path: xcrun --show-sdk-platform-path
ProbeXcrun ==
    /\ pc = "xcrun"
    /\ \E ok \in BOOLEAN :
         IF ok THEN pc' = "xcode-select" /\ probe' = probe
         ELSE pc' = "fallback" /\ probe' = NoVersion
    /\ UNCHANGED <<fs, cache, clock, runs, envTarget, features, stack, config,
                   artifact, output, locals, staged0, stagings, clang_dir, race>>

\* find_clang_rt_path: xcode-select --print-path
ProbeXcodeSelect ==
    /\ pc = "xcode-select"
    /\ \E ok \in BOOLEAN :
         IF ok THEN pc' = "read_dir" /\ probe' = probe
         ELSE pc' = "fallback" /\ probe' = NoVersion
    /\ UNCHANGED <<fs, cache, clock, runs, envTarget, features, stack, config,
                   artifact, output, locals, staged0, stagings, clang_dir, race>>

\* find_clang_rt_path: std::fs::read_dir(&toolchain_base).ok()?
ProbeReadDir ==
    /\ pc = "read_dir"
    /\ \E readable \in BOOLEAN :
         IF readable
         THEN /\ clang_dir' \in Listings
              /\ probe' = probe
              /\ pc' = "scan"
         ELSE /\ clang_dir' = clang_dir
              /\ probe' = NoVersion
              /\ pc' = "fallback"
    /\ UNCHANGED <<fs, cache, clock, runs, envTarget, features, stack, config,
                   artifact, output, locals, staged0, stagings, race>>

\* find_clang_rt_path: the scan of the entries for the archive, and its
\* return of Some(path) or None
ProbeScan ==
    /\ pc = "scan"
    /\ probe' = FirstWith(clang_dir)
    /\ pc' = "fallback"
    /\ UNCHANGED <<fs, cache, clock, runs, envTarget, features, stack, config,
                   artifact, output, locals, staged0, stagings, clang_dir, race>>

\* build_and_link_mlx_c: `if let Some(clang_rt_path) = find_clang_rt_path()`
\* prints the two lines
LinkClangRuntime ==
    /\ pc = "fallback"
    /\ output' = IF probe # NoVersion
                 THEN output \o <<LinkClangRtSearch(probe), LinkClangRt>>
                 ELSE output
    /\ clang_dir' = <<>>
    /\ pc' = "cache"
    /\ UNCHANGED <<fs, cache, clock, runs, envTarget, features, stack, config,
                   artifact, probe, locals, staged0, stagings, race>>

----------------------------------------------------------------------------
(* Kernel-Bundle Cache.                                                    *)

WarnCached == "cargo:warning=Cached mlx.metallib to <dest>"
WarnFailed == "cargo:warning=Failed to cache mlx.metallib: <e>"

\* s.modified().ok().zip(d.modified().ok()).is_some_and(|(src_t, dst_t)| src_t > dst_t)
NewerOrEqual(src_t, dst_t) ==
    src_t # NoTime /\ dst_t # NoTime /\ src_t[1] >= dst_t[1]
Newer(src_t, dst_t) ==
    src_t # NoTime /\ dst_t # NoTime /\ src_t[1] > dst_t[1]

AlwaysCopy(existed, src_t, dst_t) == TRUE
CopyIfNotOlder(existed, src_t, dst_t) ==
    IF existed THEN NewerOrEqual(src_t, dst_t) ELSE TRUE
CopyIfOlder(existed, src_t, dst_t) ==
    IF existed THEN Newer(dst_t, src_t) ELSE TRUE
\* let should_copy = if dest.exists() { ... } else { true }
ShouldCopy(existed, src_t, dst_t) ==
    IF existed THEN Newer(src_t, dst_t) ELSE TRUE

Bail(why) ==
    /\ locals' = [NoLocals EXCEPT !.result = why]
    /\ output' = output
    /\ pc' = "aborted"
\* a branch of the block that copies nothing: nothing is printed, and
\* build_and_link_mlx_c returns
Skip(why) ==
    /\ locals' = [NoLocals EXCEPT !.result = why]
    /\ output' = output
    /\ pc' = "bindgen"

CopyFailedSilent(out) == out
\* Err(e) => println!("cargo:warning=Failed to cache mlx.metallib: {}", e)
CopyFailedLines(out) == Append(out, WarnFailed)

\* the cfg(feature = "metal") block of build_and_link_mlx_c up to
\* `if should_copy`: each Option of a modification time is None when the
\* metadata of that file cannot be read
CacheCheck ==
    /\ pc = "cache"
    /\ IF ~features.metal THEN Skip("off")
       ELSE IF artifact = NoFile THEN Skip("absent")
       ELSE \E home \in BOOLEAN, srcMeta \in BOOLEAN, dstMeta \in BOOLEAN :
              IF ~home THEN Skip("nohome")
              ELSE LET existed == cache # NoFile
                       src_t == IF existed /\ srcMeta THEN <<artifact.mtime>> ELSE NoTime
                       dst_t == IF existed /\ dstMeta THEN <<cache.mtime>> ELSE NoTime
                       should_copy == ShouldCopy(existed, src_t, dst_t)
                   IN  /\ locals' = [before |-> cache, dst_t |-> dst_t, src_t |-> src_t,
                                     should_copy |-> should_copy,
                                     result |-> IF should_copy THEN "copying"
                                                ELSE IF src_t = NoTime \/ dst_t = NoTime
                                                THEN "nometa" ELSE "kept"]
                       /\ output' = output
                       /\ pc' = IF should_copy THEN "cachecopy" ELSE "bindgen"
    /\ UNCHANGED <<fs, cache, clock, runs, envTarget, features, stack, config,
                   artifact, probe, staged0, stagings, clang_dir, race>>

\* what a std::fs::copy that succeeds leaves at dest: the data of the
\* artifact, dated as the artifact (a clone) or now (a fresh file)
CopiedFiles == {[data |-> artifact.data, mtime |-> t] : t \in {artifact.mtime, clock}}
\* what a std::fs::copy that fails leaves at dest: what was there, or a
\* file cut short
FailedFiles == {cache, [data |-> Partial, mtime |-> clock]}

\* `if should_copy { ... }`: create_dir_all (its result dropped), copy, warn
CacheCopy ==
    /\ pc = "cachecopy"
    /\ \/ /\ cache' \in CopiedFiles
          /\ output' = Append(output, WarnCached)
          /\ locals' = [locals EXCEPT !.result = "copied"]
       \/ /\ cache' \in FailedFiles
          /\ output' = CopyFailedLines(output)
          /\ locals' = [locals EXCEPT !.result = "copyfail"]
    /\ pc' = "bindgen"
    /\ UNCHANGED <<fs, clock, runs, envTarget, features, stack, config,
                   artifact, probe, staged0, stagings, clang_dir, race>>

----------------------------------------------------------------------------
(* Binding Generator.                                                      *)

\* main: bindgen::Builder ... .generate().expect(...)
GenerateBindings ==
    /\ pc = "bindgen"
    /\ \E ok \in BOOLEAN : pc' = IF ok THEN "write" ELSE "aborted"
    /\ UNCHANGED <<fs, cache, clock, runs, envTarget, features, stack, config,
                   artifact, output, probe, locals, staged0, stagings, clang_dir, race>>

\* main: bindings.write_to_file(...).expect(...)
WriteBindings ==
    /\ pc = "write"
    /\ \E ok \in BOOLEAN : pc' = IF ok THEN "done" ELSE "aborted"
    /\ UNCHANGED <<fs, cache, clock, runs, envTarget, features, stack, config,
                   artifact, output, probe, locals, staged0, stagings, clang_dir, race>>

----------------------------------------------------------------------------
(* Between invocations.                                                    *)

Ended == pc \in {"done", "aborted"}
StrayFile == StagedRoot \o <<"stray.tmp">>

\* a file is put into the staged tree by hand
AddStrayFile ==
    /\ Ended
    /\ runs < MaxRuns
    /\ StagedRoot \in DOMAIN fs
    /\ StrayFile \notin DOMAIN fs
    /\ fs' = fs @@ (StrayFile :> File(<<"stray">>))
    /\ UNCHANGED <<cache, clock, runs, pc, envTarget, features, stack, config,
                   artifact, output, probe, locals, staged0, stagings, clang_dir, race>>

\* cargo runs the build script again: a new process, later
Invoke ==
    /\ Ended
    /\ runs < MaxRuns
    /\ runs' = runs + 1
    /\ clock' = clock + 1
    /\ pc' = "start"
    /\ envTarget' \in EnvTargets
    /\ features' \in Features
    /\ stack' = <<>>
    /\ config' = NoConfig
    /\ artifact' = NoFile
    /\ output' = <<>>
    /\ probe' = NoProbe
    /\ locals' = NoLocals
    /\ staged0' = {}
    /\ clang_dir' = <<>>
    /\ UNCHANGED <<fs, cache, stagings, race>>

----------------------------------------------------------------------------
(* The specification.                                                      *)

Next ==
    \/ SetDeploymentTarget
    \/ StageBegin
    \/ CopyEntry
    \/ CopyReturn
    \/ PatchCopyAsset
    \/ PatchRewrite
    \/ Configure
    \/ NativeBuild
    \/ LinkWiring
    \/ ProbeXcrun
    \/ ProbeXcodeSelect
    \/ ProbeReadDir
    \/ ProbeScan
    \/ LinkClangRuntime
    \/ CacheCheck
    \/ CacheCopy
    \/ GenerateBindings
    \/ WriteBindings
    \/ AddStrayFile
    \/ Invoke

Spec == Init /\ [][Next]_vars

\* One invocation, from its start to its end: a process that has started
\* keeps running until main() returns or panics.
Step ==
    \/ SetDeploymentTarget \/ StageBegin \/ CopyEntry \/ CopyReturn
    \/ PatchCopyAsset \/ PatchRewrite \/ Configure \/ NativeBuild \/ LinkWiring
    \/ ProbeXcrun \/ ProbeXcodeSelect \/ ProbeReadDir \/ ProbeScan
    \/ LinkClangRuntime \/ CacheCheck \/ CacheCopy \/ GenerateBindings
    \/ WriteBindings

SpecTerm == Init /\ [][Step]_vars /\ WF_vars(Step)

\* The Source Stager and the Patch Injector alone, run on every Build
\* Descriptor of at most MaxLen tokens.
Contents == UNION {[1..n -> Tokens] : n \in 0..MaxLen}

InitPatch ==
    /\ fs \in {TreeFlat(cm) : cm \in Contents}
    /\ cache = NoFile
    /\ clock = 1
    /\ runs = 1
    /\ pc = "start"
    /\ envTarget = Unset
    /\ features = [metal |-> FALSE, accelerate |-> FALSE]
    /\ stack = <<>>
    /\ config = NoConfig
    /\ artifact = NoFile
    /\ output = <<>>
    /\ probe = NoProbe
    /\ locals = NoLocals
    /\ staged0 = {}
    /\ stagings = <<>>
    /\ clang_dir = <<>>
    /\ race = Idle

NextPatch ==
    \/ SetDeploymentTarget
    \/ StageBegin
    \/ CopyEntry
    \/ CopyReturn
    \/ PatchCopyAsset
    \/ PatchRewrite

SpecPatch == InitPatch /\ [][NextPatch]_vars

\* Invocations that run at the same time, each from the point where it has
\* built its kernel bundle with Backend-A on and enters the caching block.
\* std::fs::copy is not one step here: it opens the destination, cutting it
\* to nothing, and then writes it.
InitRace ==
    /\ fs = TreeFlat(StdCmake)
    /\ cache = NoFile
    /\ clock = 1
    /\ runs = 0
    /\ pc = "start"
    /\ envTarget = Unset
    /\ features = [metal |-> TRUE, accelerate |-> FALSE]
    /\ stack = <<>>
    /\ config = NoConfig
    /\ artifact = NoFile
    /\ output = <<>>
    /\ probe = NoProbe
    /\ locals = NoLocals
    /\ staged0 = {}
    /\ stagings = <<>>
    /\ clang_dir = <<>>
    /\ race = Idle

Alone == <<fs, pc, envTarget, features, stack, config, artifact, output, probe,
           locals, staged0, stagings, clang_dir>>

\* cargo starts an invocation; it runs up to `if metallib.exists()` with a
\* bundle built now or left up to date by an earlier build
RaceInvoke(p) ==
    /\ race[p].pc \in {"idle", "over"}
    /\ runs < MaxRaceRuns
    /\ runs' = runs + 1
    /\ clock' = clock + 1
    /\ \E built \in [data : Bundles, mtime : 1..clock'] :
         race' = [race EXCEPT ![p] = [NoProc EXCEPT !.pc = "check", !.artifact = built]]
    /\ UNCHANGED <<cache, Alone>>

\* the caching block up to `if should_copy`
RaceCheck(p) ==
    /\ race[p].pc = "check"
    /\ \E home \in BOOLEAN, srcMeta \in BOOLEAN, dstMeta \in BOOLEAN :
         IF ~home
         THEN race' = [race EXCEPT ![p].pc = "over", ![p].result = "nohome"]
         ELSE LET existed == cache # NoFile
                  src_t == IF existed /\ srcMeta THEN <<race[p].artifact.mtime>> ELSE NoTime
                  dst_t == IF existed /\ dstMeta THEN <<cache.mtime>> ELSE NoTime
                  should_copy == ShouldCopy(existed, src_t, dst_t)
              IN  race' = [race EXCEPT
                             ![p].before = cache,
                             ![p].pc = IF should_copy THEN "copy" ELSE "over",
                             ![p].result = IF should_copy THEN "copying"
                                           ELSE IF src_t = NoTime \/ dst_t = NoTime
                                           THEN "nometa" ELSE "kept"]
    /\ UNCHANGED <<cache, clock, runs, Alone>>

\* the processes whose copy is under way with a bundle other than that of p
Others(p) ==
    {q \in Procs \ {p} : race[q].pc = "writing"
                          /\ race[q].artifact.data # race[p].artifact.data}

\* std::fs::copy(&metallib, &dest), its start: the destination is opened for
\* writing and cut to nothing, or cannot be
RaceOpen(p) ==
    /\ race[p].pc = "copy"
    /\ \/ /\ cache' = [data |-> Partial, mtime |-> clock]
          /\ race' = [q \in Procs |->
                        IF q = p
                        THEN [race[p] EXCEPT !.pc = "writing", !.mix = Others(p) # {}]
                        ELSE IF q \in Others(p) THEN [race[q] EXCEPT !.mix = TRUE]
                        ELSE race[q]]
       \/ /\ cache' = cache
          /\ race' = [race EXCEPT ![p].pc = "over", ![p].result = "copyfail"]
    /\ UNCHANGED <<clock, runs, Alone>>

\* std::fs::copy(&metallib, &dest), its end: the bundle is written out, over
\* or under what another copy writes at the same time, or the write fails
RaceWrite(p) ==
    /\ race[p].pc = "writing"
    /\ \/ /\ \E d \in {race[p].artifact.data} \cup (IF race[p].mix THEN {Torn} ELSE {}),
                t \in {race[p].artifact.mtime, clock} :
                cache' = [data |-> d, mtime |-> t]
          /\ race' = [race EXCEPT ![p].pc = "over", ![p].result = "copied"]
       \/ /\ cache' = [data |-> Partial, mtime |-> clock]
          /\ race' = [race EXCEPT ![p].pc = "over", ![p].result = "copyfail"]
    /\ UNCHANGED <<clock, runs, Alone>>

NextRace ==
    \/ \E p \in Procs : RaceInvoke(p)
    \/ \E p \in Procs : RaceCheck(p)
    \/ \E p \in Procs : RaceOpen(p)
    \/ \E p \in Procs : RaceWrite(p)

SpecRace == InitRace /\ [][NextRace]_vars

----------------------------------------------------------------------------
(* What the claims speak of.                                               *)

Range(q) == {q[i] : i \in DOMAIN q}
Last(q) == q[Len(q)]
Count(q, x) == Cardinality({i \in DOMAIN q : q[i] = x})

LinkDirectives ==
    {LinkSearch, LinkMlx, LinkMlxc, LinkCxx, LinkObjc, LinkFoundation, LinkMetal,
     LinkAccelerate, LinkClangRt} \cup {LinkClangRtSearch(v) : v \in Versions}
IsLinkDirective(line) == line \in LinkDirectives
Links(out) == SelectSeq(out, IsLinkDirective)
Warnings(out) == Range(out) \cap {WarnCached, WarnFailed}

\* the caching block ran with Backend-A on, the bundle built and HOME resolved
CacheDecided == locals.result \in {"kept", "nometa", "copied", "copyfail"}
\* the caching block is over
CacheOver == pc \in {"bindgen", "write", "done"} /\ locals.result # "none"
CopySucceeded == WarnCached \in Range(output)
CopyFailed == WarnFailed \in Range(output)
TimesReadable == locals.src_t # NoTime /\ locals.dst_t # NoTime

\* C1: across invocations, a cache entry that exists is never replaced from a
\* build artifact older than it, and its modification time never goes back.
C1_CacheNeverRegresses ==
    [][(cache # NoFile /\ cache' # cache)
          => (cache' # NoFile /\ artifact.mtime >= cache.mtime
              /\ cache'.mtime >= cache.mtime)]_vars

\* C1, its case: an entry exists and this invocation's artifact is older than
\* it; the block has run and the entry is the one found.
C1_Witness ==
    /\ CacheOver
    /\ locals.before # NoFile
    /\ artifact.mtime < locals.before.mtime
    /\ cache = locals.before

\* C2 as stated: with Backend-A on, the bundle built and HOME resolved, no
\* entry means the artifact is copied, an older entry is overwritten, and a
\* newer or equally old entry is left as it was.
C2_AsStated ==
    (CacheOver /\ CacheDecided) =>
        /\ locals.before = NoFile => cache.data = artifact.data
        /\ (locals.before # NoFile /\ locals.before.mtime < artifact.mtime)
              => (cache.data = artifact.data /\ cache.mtime > locals.before.mtime)
        /\ (locals.before # NoFile /\ locals.before.mtime >= artifact.mtime)
              => cache = locals.before

\* C2 amended: no entry, or an older entry with both modification times
\* readable, means the copy is attempted, and the entry holds the artifact
\* when the copy succeeds; a newer or equally old entry, or an entry with a
\* modification time unreadable, is left as it was, with no copy attempted.
C2_CacheDecision ==
    (CacheOver /\ CacheDecided) =>
        /\ locals.before = NoFile
              => /\ CopySucceeded \/ CopyFailed
                 /\ CopySucceeded => cache.data = artifact.data
        /\ (locals.before # NoFile /\ locals.before.mtime < artifact.mtime /\ TimesReadable)
              => /\ CopySucceeded \/ CopyFailed
                 /\ CopySucceeded => (cache.data = artifact.data
                                      /\ cache.mtime > locals.before.mtime)
        /\ (locals.before # NoFile
            /\ (locals.before.mtime >= artifact.mtime \/ ~TimesReadable))
              => (cache = locals.before /\ ~CopySucceeded /\ ~CopyFailed)

\* C2, its case: an older entry with other data was found and has been
\* overwritten by the artifact.
C2_Witness ==
    /\ CacheOver
    /\ locals.before # NoFile
    /\ locals.before.mtime < artifact.mtime
    /\ locals.before.data # artifact.data
    /\ cache.data = artifact.data

\* C3 as stated: after a run with Backend-A on and the bundle built, the
\* cache path holds the bytes of that bundle, whatever was there before.
C3_AsStated ==
    (pc = "done" /\ features.metal /\ artifact # NoFile) => cache.data = artifact.data

\* C3 amended: after a run with Backend-A on, the bundle built, HOME
\* resolved, the cache path absent or older than the bundle with both
\* modification times readable, and no copy failure, the cache path holds
\* the bytes of that bundle.
C3_ScenarioB ==
    (/\ pc = "done" /\ features.metal /\ artifact # NoFile
     /\ CacheDecided
     /\ \/ locals.before = NoFile
        \/ (TimesReadable /\ locals.before.mtime < artifact.mtime)
     /\ ~CopyFailed)
        => cache.data = artifact.data

\* C3, its case: the run is over, the cache path was absent and now holds
\* the bundle.
C3_Witness ==
    /\ pc = "done" /\ features.metal /\ artifact # NoFile
    /\ CacheDecided
    /\ locals.before = NoFile
    /\ cache.data = artifact.data

Vendored(f) == [p \in Under(f, SrcRoot) |-> f[p]]

\* C4: no step changes the vendored source tree.
C4_VendoredNeverWritten ==
    [][Vendored(fs') = Vendored(fs)]_vars

\* C4, its case: the Patch Injector has rewritten the staged Build
\* Descriptor, which now differs from the vendored one.
C4_Witness ==
    /\ pc = "configure"
    /\ fs[CmakePath].data # fs[CmakePathSrc].data

\* C5: the stagings of one source all produce the same tree, and no path
\* found below the staged root when a staging began is there after it
\* unless the source has it.
C5_StagingIdempotent ==
    /\ \A i \in DOMAIN stagings, j \in DOMAIN stagings : stagings[i] = stagings[j]
    /\ pc = "patch" =>
          \A p \in staged0 :
              p \in DOMAIN fs => Resolve(fs, SrcRoot \o Rel(StagedRoot, p)) # NoPath

\* C5, its case: a second staging has completed over a staged tree that held
\* the patched tree of the first and a file added by hand.
C5_Witness ==
    /\ pc = "patch"
    /\ Len(stagings) = 2
    /\ StrayFile \in staged0
    /\ PatchFile \in staged0

\* the node at `path` itself, not what it links to
lstat(f, path) ==
    LET d == Resolve(f, Parent(path))
    IN  IF path = <<>> \/ d = NoPath \/ Append(d, Last(path)) \notin DOMAIN f
        THEN NoPath
        ELSE Append(d, Last(path))
IsLinkAt(f, path) == lstat(f, path) # NoPath /\ f[lstat(f, path)].kind = "link"

\* the staged node q is real and has the content of the source node t, links
\* below t followed
RECURSIVE SameContent(_, _, _)
SameContent(f, q, t) ==
    /\ q \in DOMAIN f
    /\ t # NoPath
    /\ f[q].kind = f[t].kind
    /\ f[q].kind = "file" => f[q].data = f[t].data
    /\ f[q].kind = "dir" =>
          /\ Children(f, q) = Children(f, t)
          /\ \A n \in Children(f, t) :
                SameContent(f, Append(q, n), Resolve(f, Append(t, n)))

\* the paths entry.path() can take below the source root, as relative paths
EntryPaths(f) ==
    UNION {[1..n -> UNION {Range(p) : p \in Under(f, SrcRoot)}] : n \in 1..(MaxDepth - 1)}

\* C6: after a successful staging the staged tree holds no symbolic link,
\* and wherever the source tree has a link (also below a directory reached
\* through a link) the staged tree has a real file or directory with the
\* content of the link's target, resolved from the link's own directory.
C6_LinksResolved ==
    pc = "patch" =>
        /\ \A q \in Under(fs, StagedRoot) : fs[q].kind # "link"
        /\ \A r \in EntryPaths(fs) :
              IsLinkAt(fs, SrcRoot \o r) =>
                  SameContent(fs, StagedRoot \o r, Resolve(fs, SrcRoot \o r))

\* C6, its case: staging is over on the tree with `current -> v2`, and the
\* relative links of v2 have been copied below current too.
C6_Witness ==
    /\ pc = "patch"
    /\ IsLinkAt(fs, <<"src", "current">>)
    /\ IsLinkAt(fs, <<"src", "current", "alias">>)
    /\ <<"staged", "current", "x.txt">> \in DOMAIN fs
    /\ <<"staged", "current", "alias">> \in DOMAIN fs

Occurrences(s, from) ==
    Cardinality({i \in 1..(Len(s) - Len(from) + 1) : SubSeq(s, i, i + Len(from) - 1) = from})
IsNotPatch(t) == t # PATCH
Rewritten == pc = "configure" /\ CmakePath \in DOMAIN fs /\ CmakePathSrc \in DOMAIN fs

\* C7 as stated: after the Patch Injector the staged Build Descriptor holds
\* exactly one inserted directive, right after the version tag, whatever the
\* vendored Build Descriptor.
C7_AsStated ==
    Rewritten =>
        LET s == fs[CmakePath].data
        IN  /\ Count(s, PATCH) = 1
            /\ \A i \in DOMAIN s : s[i] = PATCH => (i > 1 /\ s[i - 1] = TAG)

\* C7 amended: after the Patch Injector the staged Build Descriptor is the
\* vendored one with one directive inserted right after the version tag of
\* every occurrence of "GIT_TAG v0.30.6)": one when it occurs once, none
\* when it does not occur, one each when it occurs several times.
C7_OnePerOccurrence ==
    Rewritten =>
        LET s == fs[CmakePath].data
            v == fs[CmakePathSrc].data
        IN  /\ Count(s, PATCH) = Occurrences(v, <<TAG, CLOSE>>)
            /\ \A i \in DOMAIN s :
                  s[i] = PATCH => /\ i > 1 /\ s[i - 1] = TAG
                                  /\ i < Len(s) /\ s[i + 1] = CLOSE
            /\ SelectSeq(s, IsNotPatch) = v
            /\ Occurrences(s, <<TAG, CLOSE>>) = 0

\* C7, its case: the vendored Build Descriptor holds the marker twice and
\* has been rewritten.
C7_Witness ==
    /\ Rewritten
    /\ Occurrences(fs[CmakePathSrc].data, <<TAG, CLOSE>>) = 2
    /\ Count(fs[CmakePath].data, PATCH) = 2

\* C8: whatever the caching block meets, the invocation goes on to binding
\* generation, and the link directives printed so far stay as they are.
C8_CachingNeverAborts ==
    [][(pc \in {"cache", "cachecopy"})
          => (pc' \in {"cachecopy", "bindgen"} /\ Links(output') = Links(output))]_vars

\* C8, its case: the copy failed, and the invocation is at binding
\* generation with its link directives printed.
C8_Witness ==
    /\ pc = "bindgen"
    /\ locals.result = "copyfail"
    /\ Len(Links(output)) >= 6

CachingErrors == {"nohome", "nometa", "copyfail"}

Unconditional == <<LinkSearch, LinkMlx, LinkMlxc, LinkCxx, LinkObjc, LinkFoundation>>
BeforeProbe ==
    Unconditional
    \o (IF features.metal THEN <<LinkMetal>> ELSE <<>>)
    \o (IF features.accelerate THEN <<LinkAccelerate>> ELSE <<>>)
AllLinks ==
    BeforeProbe
    \o (IF probe \in Versions THEN <<LinkClangRtSearch(probe), LinkClangRt>> ELSE <<>>)

\* C10: the link directives are printed in the order (1) search path, (2)
\* mlx, mlxc, (3) c++, (4) objc, Foundation, (5) Metal with Backend-A, (6)
\* Accelerate with Backend-B, (7) the clang runtime search path and
\* library when the probe found the archive; none before the native build
\* is over.
C10_LinkOrder ==
    /\ pc \in {"start", "stage", "copy", "patch", "rewrite", "configure", "build", "link"}
          => Links(output) = <<>>
    /\ pc \in {"xcrun", "xcode-select", "read_dir", "scan", "fallback"} => Links(output) = BeforeProbe
    /\ pc \in {"cache", "cachecopy", "bindgen", "write", "done"} => Links(output) = AllLinks
    /\ pc = "aborted" => (Links(output) = <<>> \/ Links(output) = AllLinks)

\* C10, its case: both backends on and the archive found; all ten
\* directives are out.
C10_Witness ==
    /\ pc = "done"
    /\ features.metal /\ features.accelerate
    /\ probe \in Versions
    /\ Len(Links(output)) = 10


PostProbe == {"cache", "cachecopy", "bindgen", "write", "done"}
BothOff == ~features.metal /\ ~features.accelerate

\* C11 as stated: with both backends off, the link directives printed are
\* the six unconditional ones and no other, whatever the probe found.
C11_AsStated ==
    (pc \in PostProbe /\ BothOff) => Links(output) = Unconditional

\* C11 amended: with both backends off, the link directives printed are the
\* six unconditional ones, neither Metal nor Accelerate, and after them the
\* clang runtime search path and library exactly when the probe found the
\* archive.
C11_ScenarioA ==
    (pc \in PostProbe /\ BothOff) =>
        /\ SubSeq(Links(output), 1, 6) = Unconditional
        /\ LinkMetal \notin Range(output)
        /\ LinkAccelerate \notin Range(output)
        /\ probe \in Versions =>
              SubSeq(Links(output), 7, Len(Links(output)))
                  = <<LinkClangRtSearch(probe), LinkClangRt>>
        /\ probe \notin Versions => Len(Links(output)) = 6

\* C11, its case: both backends off, the archive found, the run over.
C11_Witness ==
    /\ pc = "done"
    /\ BothOff
    /\ probe \in Versions
    /\ Len(Links(output)) = 8

\* C12: MACOSX_DEPLOYMENT_TARGET is set in the process environment before
\* the native build is configured or run, and the CMAKE_OSX_DEPLOYMENT_TARGET
\* handed to the native build is the value in the environment.
C12_TargetSetBeforeBuild ==
    /\ pc \in {"stage", "copy", "patch", "rewrite", "configure", "build"} => envTarget # Unset
    /\ config # NoConfig => (config.target = envTarget /\ envTarget # Unset)

\* C12, its case: the native build is about to run with the default target,
\* which is also the value in the environment.
C12_Witness ==
    /\ pc = "build"
    /\ config.target = "14.0"
    /\ envTarget = "14.0"

StagedWhole == \A n \in Children(fs, SrcRoot) : Append(StagedRoot, n) \in DOMAIN fs
\* the staged Build Descriptor is the vendored one, rewritten
StagedPatched ==
    /\ PatchFile \in DOMAIN fs
    /\ is_file(fs, CmakePath)
    /\ is_file(fs, CmakePathSrc)
    /\ fs[Resolve(fs, CmakePath)].data = Patched(fs[Resolve(fs, CmakePathSrc)].data)

\* C14: the native build is configured and run only on a tree staged whole
\* and patched in this invocation; a step that fails ends the invocation at
\* once, printing nothing and leaving the artifact, the configuration and
\* the cache as they were, and nothing more happens in it, so no link
\* directive follows a failed native build.
C14_FailFast ==
    /\ [](config # NoConfig =>
             /\ stack = <<>>
             /\ RerunIfChanged \in Range(output)
             /\ StagedWhole
             /\ StagedPatched)
    /\ [](artifact # NoFile => config # NoConfig)
    /\ []((pc = "aborted" /\ artifact = NoFile /\ locals = NoLocals /\ probe = NoProbe)
             => Links(output) = <<>>)
    /\ [][(pc = "aborted")
             => (runs' = runs + 1
                 \/ UNCHANGED <<pc, output, config, artifact, cache, stack, probe, locals>>)]_vars
    /\ [][(pc # "aborted" /\ pc' = "aborted")
             => UNCHANGED <<output, config, artifact, cache>>]_vars

\* C14, its case: the native build has failed: the invocation is over with
\* the build configured and no link directive printed.
C14_Witness ==
    /\ pc = "aborted"
    /\ config # NoConfig
    /\ Links(output) = <<>>


\* the positions of main(), in program order, and the step each belongs to
StepOrder ==
    <<"start", "stage", "copy", "patch", "rewrite", "configure", "build", "link",
      "xcrun", "xcode-select", "read_dir", "scan", "fallback", "cache", "cachecopy",
      "bindgen", "write", "done">>
Pos(p) == CHOOSE i \in DOMAIN StepOrder : StepOrder[i] = p
Component(p) ==
    CASE p = "start" -> "Toolchain Resolver"
      [] p \in {"stage", "copy"} -> "Source Stager"
      [] p \in {"patch", "rewrite"} -> "Patch Injector"
      [] p \in {"configure", "build"} -> "Native Build Driver"
      [] p \in {"link", "xcrun", "xcode-select", "read_dir", "scan", "fallback",
                "cache", "cachecopy"} -> "Link Wiring and Kernel-Bundle Cache"
      [] p \in {"bindgen", "write"} -> "Binding Generator"
      [] OTHER -> "over"
Follows(c, d) ==
    <<c, d>> \in {<<"Toolchain Resolver", "Source Stager">>,
                  <<"Source Stager", "Patch Injector">>,
                  <<"Patch Injector", "Native Build Driver">>,
                  <<"Native Build Driver", "Link Wiring and Kernel-Bundle Cache">>,
                  <<"Link Wiring and Kernel-Bundle Cache", "Binding Generator">>,
                  <<"Binding Generator", "over">>}

\* C15: within an invocation the position only moves forward in program
\* order, from a step to itself or to the step that follows it (or to the
\* fatal end), so the steps run in the order Toolchain Resolver, Source
\* Stager, Patch Injector, Native Build Driver, Link Wiring and Kernel-Bundle
\* Cache, Binding Generator, none skipped and none entered twice; an
\* invocation that is over is followed only by a new one, from the start.
C15_StepsInOrder ==
    [][(pc' # pc) =>
          IF Ended
          THEN pc' = "start" /\ runs' = runs + 1
          ELSE \/ pc' = "aborted"
               \/ /\ Pos(pc') > Pos(pc)
                  /\ \/ Component(pc') = Component(pc)
                     \/ Follows(Component(pc), Component(pc'))]_vars

\* C15, its case: a second invocation has run all the steps to the end.
C15_Witness ==
    /\ pc = "done"
    /\ runs = 2
    /\ Len(stagings) = 2

ProbePcs == {"xcrun", "xcode-select", "read_dir", "scan", "fallback"}
IsFallbackLine(line) == line \in {LinkClangRt} \cup {LinkClangRtSearch(v) : v \in Versions}
FallbackLines == SelectSeq(output, IsFallbackLine)
Matches == {i \in DOMAIN clang_dir : clang_dir[i].has}
FirstMatch ==
    IF Matches = {} THEN NoVersion
    ELSE clang_dir[CHOOSE i \in Matches : \A j \in Matches : i <= j].name

\* C17: the two fallback directives are printed exactly when both commands
\* succeeded, the directory was read and an entry of it holds the archive,
\* and then for the first such entry in the order enumerated; a failure of
\* any of these prints neither and the invocation goes on to the caching
\* block.
C17_FallbackProbe ==
    /\ [](pc = "fallback" => probe = FirstMatch)
    /\ [](pc \in ProbePcs => FallbackLines = <<>>)
    /\ [](pc \in PostProbe =>
             FallbackLines = IF probe \in Versions
                             THEN <<LinkClangRtSearch(probe), LinkClangRt>>
                             ELSE <<>>)
    /\ [][(pc \in ProbePcs) => (pc' \in ProbePcs \cup {"cache"})]_vars
    /\ [][(pc \in {"xcrun", "xcode-select", "read_dir"} /\ pc' = "fallback")
             => probe' = NoVersion]_vars

\* C17, its case: two entries hold the archive, the one enumerated first is
\* not the first by name, and it is the one the probe returned.
C17_Witness ==
    /\ pc = "fallback"
    /\ Len(clang_dir) = 2
    /\ clang_dir[1] = [name |-> "17", has |-> TRUE]
    /\ clang_dir[2] = [name |-> "16", has |-> TRUE]
    /\ probe = "17"


\* C18: an invocation that has started ends, done or failed, and a staging
\* that has started comes back to its caller or fails, on every source tree,
\* those with links to sibling and ancestor directories and to links among
\* them.
C18_Terminates ==
    /\ (pc = "start") ~> Ended
    /\ (pc = "copy") ~> (pc \in {"patch", "aborted"})

\* C18, its case: the source tree has a link to the directory that holds it;
\* the copy went down through it until the path was too long, and failed.
C18_Witness ==
    /\ pc = "aborted"
    /\ IsLinkAt(fs, <<"src", "self">>)
    /\ is_dir(fs, <<"src", "self">>)
    /\ \E p \in Under(fs, StagedRoot) : Len(p) = MaxDepth /\ Last(p) = "self"


Quiet == \A p \in Procs : race[p].pc \in {"idle", "over"}

\* C16 as stated: invocations that race on the cache path leave in it, at
\* worst, a bundle that is not the newest: the entry is never a mix of two
\* bundles; and an invocation that found an entry older than its artifact,
\* both times read, did not keep it.
C16_AsStated ==
    /\ cache.data # Torn
    /\ \A p \in Procs :
          (race[p].result = "kept") => race[p].artifact.mtime <= race[p].before.mtime

\* C16, its case: two invocations copied at the same time, both report the
\* bundle cached, and the entry is neither bundle.
C16_Witness ==
    /\ Quiet
    /\ \A p \in Procs : race[p].result = "copied"
    /\ cache.data = Torn

====
